---- MODULE Spec2Model ----
(***************************************************************************)
(* Model of .github/scripts/run-container-test.py: the dispatcher that     *)
(* resolves a container executor, maps (distro, arch) to (image,           *)
(* platform), assembles the `run` invocation and executes it through the   *)
(* shell.  Strings are TLA+ strings; the character-level library calls     *)
(* the script makes (str.capitalize, os.path.abspath, shlex.join) are      *)
(* computed character by character.                                        *)
(***************************************************************************)
EXTENDS Integers, Sequences, FiniteSets, TLC

VARIABLES environ, on_path, cwd, pc, opts, VERBOSE, oci_exe, cmd, cmdline,
          stdout, proc, outcome

vars == <<environ, on_path, cwd, pc, opts, VERBOSE, oci_exe, cmd, cmdline,
          stdout, proc, outcome>>

(***************************************************************************)
(* Bounds and input sets.                                                  *)
(***************************************************************************)
\* Exit statuses 0..MaxStatus of the container process are explored, next
\* to the conventional 125 (engine error), 127 (command not found) and
\* 137 (killed).
MaxStatus == 2

ContainerStatuses == (0..MaxStatus) \cup {125, 127, 137}

\* Values of the OCI_EXE environment variable that are explored when it is set.
Overrides == {"", "nerdctl", "docker"}

\* Executables that may or may not be resolvable on the search path.
Installable == {"finch", "podman", "docker"}

\* --distro / --arch values handed to the script; "debian" and "riscv64" are
\* not keys of the tables.
DistroInputs == {"ubuntu-22.04", "al2023", "al2", "debian"}
ArchInputs == {"x64", "arm64", "riscv64"}

\* --test-bin-dir values: absolute, relative with "..", and with a space.
DirInputs == {"/tmp/out", "build/../out", "/tmp/my out"}

(***************************************************************************)
(* The static tables.                                                      *)
(***************************************************************************)
DISTRO_TO_IMAGE_NAME ==
    [d \in {"ubuntu-22.04", "al2023", "al2"} |->
        CASE d = "ubuntu-22.04" -> "public.ecr.aws/lts/ubuntu:22.04_stable"
          [] d = "al2023" -> "public.ecr.aws/amazonlinux/amazonlinux:2023"
          [] d = "al2" -> "public.ecr.aws/amazonlinux/amazonlinux:2"]

DOCKER_PLATFORM_BY_ARCH ==
    [a \in {"x64", "arm64"} |->
        CASE a = "x64" -> "linux/amd64"
          [] a = "arm64" -> "linux/arm64"]

\* Variant: a lookup that falls back to some entry of the table (dict.get with
\* a default) instead of raising.
getitem_default(table, key) ==
    [raises |-> FALSE,
     value |-> IF key \in DOMAIN table THEN table[key]
               ELSE table[CHOOSE k \in DOMAIN table : TRUE]]

\* table[key]: the value, or a raised KeyError when key is not in the table.
getitem(table, key) ==
    [raises |-> key \notin DOMAIN table,
     value |-> IF key \in DOMAIN table THEN table[key] ELSE ""]

(***************************************************************************)
(* Character-level helpers.                                                *)
(***************************************************************************)
Char(s, i) == SubSeq(s, i, i)

Rest(s, i) == IF i > Len(s) THEN "" ELSE SubSeq(s, i, Len(s))

IndexIn(c, alphabet) ==
    IF \E i \in 1..Len(alphabet) : Char(alphabet, i) = c
    THEN CHOOSE i \in 1..Len(alphabet) : Char(alphabet, i) = c
    ELSE 0

ascii_lowercase == "abcdefghijklmnopqrstuvwxyz"
ascii_uppercase == "ABCDEFGHIJKLMNOPQRSTUVWXYZ"

upper(c) ==
    IF IndexIn(c, ascii_lowercase) = 0 THEN c
    ELSE Char(ascii_uppercase, IndexIn(c, ascii_lowercase))

lower(c) ==
    IF IndexIn(c, ascii_uppercase) = 0 THEN c
    ELSE Char(ascii_lowercase, IndexIn(c, ascii_uppercase))

RECURSIVE lower_str(_)
lower_str(s) ==
    IF s = "" THEN "" ELSE lower(Char(s, 1)) \o lower_str(Rest(s, 2))

\* Variant: str.upper() in place of str.capitalize().
RECURSIVE upper_str(_)
upper_str(s) ==
    IF s = "" THEN "" ELSE upper(Char(s, 1)) \o upper_str(Rest(s, 2))

capitalize_upper(s) == upper_str(s)

\* str.capitalize(): first character upper-cased, the rest lower-cased.
capitalize(s) ==
    IF s = "" THEN "" ELSE upper(Char(s, 1)) \o lower_str(Rest(s, 2))

StartsWith(s, prefix) ==
    Len(s) >= Len(prefix) /\ SubSeq(s, 1, Len(prefix)) = prefix

EndsWith(s, suffix) ==
    Len(s) >= Len(suffix) /\ Rest(s, Len(s) - Len(suffix) + 1) = suffix

\* s.split('/')
RECURSIVE split_acc(_, _)
split_acc(s, cur) ==
    IF s = "" THEN <<cur>>
    ELSE IF Char(s, 1) = "/" THEN <<cur>> \o split_acc(Rest(s, 2), "")
    ELSE split_acc(Rest(s, 2), cur \o Char(s, 1))

split(s) == split_acc(s, "")

\* '/'.join(comps)
RECURSIVE join_slash(_)
join_slash(comps) ==
    IF comps = <<>> THEN ""
    ELSE IF Len(comps) = 1 THEN comps[1]
    ELSE comps[1] \o "/" \o join_slash(Tail(comps))

\* The component loop of posixpath.normpath.
RECURSIVE norm_comps(_, _, _)
norm_comps(comps, new_comps, initial_slashes) ==
    IF comps = <<>> THEN new_comps
    ELSE LET comp == Head(comps)
             n == Len(new_comps)
         IN  IF comp = "" \/ comp = "."
             THEN norm_comps(Tail(comps), new_comps, initial_slashes)
             ELSE IF \/ comp # ".."
                     \/ (initial_slashes = 0 /\ n = 0)
                     \/ (n > 0 /\ new_comps[n] = "..")
             THEN norm_comps(Tail(comps), Append(new_comps, comp), initial_slashes)
             ELSE IF n > 0
             THEN norm_comps(Tail(comps), SubSeq(new_comps, 1, n - 1), initial_slashes)
             ELSE norm_comps(Tail(comps), new_comps, initial_slashes)

\* posixpath.normpath
normpath(path) ==
    IF path = "" THEN "."
    ELSE LET initial_slashes ==
                 IF ~StartsWith(path, "/") THEN 0
                 ELSE IF StartsWith(path, "//") /\ ~StartsWith(path, "///") THEN 2
                 ELSE 1
             joined == join_slash(norm_comps(split(path), <<>>, initial_slashes))
             result == (IF initial_slashes = 2 THEN "//"
                        ELSE IF initial_slashes = 1 THEN "/" ELSE "") \o joined
         IN  IF result = "" THEN "." ELSE result

\* posixpath.join(a, p) for one component
path_join(a, p) ==
    IF StartsWith(p, "/") THEN p
    ELSE IF a = "" \/ EndsWith(a, "/") THEN a \o p
    ELSE a \o "/" \o p

\* os.path.abspath(path), with the process's working directory wd
abspath(path, wd) ==
    normpath(IF StartsWith(path, "/") THEN path ELSE path_join(wd, path))

(***************************************************************************)
(* shlex.join: every token is quoted unless it consists of safe characters *)
(* only, and the quoted tokens are joined by single spaces.                *)
(***************************************************************************)
safe_chars == ascii_lowercase \o ascii_uppercase \o "0123456789_" \o "@%+=:,./-"

find_unsafe(s) == \E i \in 1..Len(s) : IndexIn(Char(s, i), safe_chars) = 0

\* s.replace("'", "'\"'\"'")
RECURSIVE replace_quote(_)
replace_quote(s) ==
    IF s = "" THEN ""
    ELSE (IF Char(s, 1) = "'" THEN "'\"'\"'" ELSE Char(s, 1)) \o replace_quote(Rest(s, 2))

shlex_quote(s) ==
    IF s = "" THEN "''"
    ELSE IF ~find_unsafe(s) THEN s
    ELSE "'" \o replace_quote(s) \o "'"

RECURSIVE shlex_join(_)
shlex_join(tokens) ==
    IF tokens = <<>> THEN ""
    ELSE IF Len(tokens) = 1 THEN shlex_quote(tokens[1])
    ELSE shlex_quote(tokens[1]) \o " " \o shlex_join(Tail(tokens))

(***************************************************************************)
(* Executor resolution.                                                    *)
(***************************************************************************)
\* A printed line.  A TLA+ string cannot hold a backquote, so the line
\* f"running `{command}`" of shell() is the pair of its format and argument.
plain(text) == [fmt |-> "{}", arg |-> text]
running(command) == [fmt |-> "running {}", arg |-> command]

\* Variant: the most common engine probed first.
executors_docker_first == <<"docker", "podman", "finch">>

executors == <<"finch", "podman", "docker">>

\* shutil.which(exe) is not None
which(exe, path) == exe \in path

\* os.environ.get(name) is not None
environ_has(env, name) == \E kv \in env : kv[1] = name

\* os.environ.get(name), when the variable is set
environ_get(env, name) == (CHOOSE kv \in env : kv[1] = name)[2]

\* Variant: "docker" is assumed when nothing resolves.
oci_executable_default_docker(env, path) ==
    IF environ_has(env, "OCI_EXE")
    THEN [exits |-> FALSE, value |-> environ_get(env, "OCI_EXE"), printed |-> <<>>]
    ELSE IF \E i \in 1..Len(executors) : which(executors[i], path)
    THEN LET first == CHOOSE i \in 1..Len(executors) :
                          /\ which(executors[i], path)
                          /\ \A j \in 1..(i - 1) : ~which(executors[j], path)
         IN  [exits |-> FALSE, value |-> executors[first], printed |-> <<>>]
    ELSE [exits |-> FALSE, value |-> "docker", printed |-> <<>>]

\* Variant: `if oci_exe:` in place of `if oci_exe is not None:`, so that an
\* empty override falls through to the probe.
oci_executable_truthy(env, path) ==
    IF environ_has(env, "OCI_EXE") /\ environ_get(env, "OCI_EXE") # ""
    THEN [exits |-> FALSE, value |-> environ_get(env, "OCI_EXE"), printed |-> <<>>]
    ELSE IF \E i \in 1..Len(executors) : which(executors[i], path)
    THEN LET first == CHOOSE i \in 1..Len(executors) :
                          /\ which(executors[i], path)
                          /\ \A j \in 1..(i - 1) : ~which(executors[j], path)
         IN  [exits |-> FALSE, value |-> executors[first], printed |-> <<>>]
    ELSE [exits |-> TRUE, value |-> "",
          printed |-> <<plain("cannot find container executor")>>]

\* The result of oci_executable(): either a returned name, or exit(1) after
\* the diagnostic has been printed.
oci_executable(env, path) ==
    IF environ_has(env, "OCI_EXE")
    THEN [exits |-> FALSE, value |-> environ_get(env, "OCI_EXE"), printed |-> <<>>]
    ELSE IF \E i \in 1..Len(executors) : which(executors[i], path)
    THEN LET first == CHOOSE i \in 1..Len(executors) :
                          /\ which(executors[i], path)
                          /\ \A j \in 1..(i - 1) : ~which(executors[j], path)
         IN  [exits |-> FALSE, value |-> executors[first], printed |-> <<>>]
    ELSE [exits |-> TRUE, value |-> "",
          printed |-> <<plain("cannot find container executor")>>]

(***************************************************************************)
(* Invocation assembly (run_docker_test, the list built before shlex.join).*)
(***************************************************************************)
path_to_exe(arch) == "./linux" \o capitalize(arch) \o "/debugTest/test.kexe"

test_mount(test_bin_dir, wd) == "-v" \o abspath(test_bin_dir, wd) \o ":/test"

\* Variant: the trust store is mounted whatever the flag says.
certs_mount_always(no_system_certs) == <<"-v/etc/ssl:/etc/ssl">>

certs_mount(no_system_certs) ==
    IF ~no_system_certs THEN <<"-v/etc/ssl:/etc/ssl">> ELSE <<>>

\* Variant: image and platform exchanged.
cmd_tail_swapped(platform, image_name, exe_path) ==
    <<"-w/test", "-e DEBIAN_FRONTEND=noninteractive", "--platform",
      image_name, platform, exe_path>>

cmd_tail(platform, image_name, exe_path) ==
    <<"-w/test", "-e DEBIAN_FRONTEND=noninteractive", "--platform",
      platform, image_name, exe_path>>

\* The token list `cmd` of run_docker_test, once both lookups have succeeded.
cmd_tokens(exe, o, wd) ==
    <<exe, "run", "--rm", test_mount(o.test_bin_dir, wd)>>
        \o certs_mount(o.no_system_certs)
        \o cmd_tail(getitem(DOCKER_PLATFORM_BY_ARCH, o.arch).value,
                    getitem(DISTRO_TO_IMAGE_NAME, o.distro).value,
                    path_to_exe(o.arch))

(***************************************************************************)
(* State.                                                                  *)
(*   environ   the process environment, a set of <<name, value>> pairs     *)
(*   on_path   the executables shutil.which / the shell can resolve        *)
(*   cwd       the working directory of the process                        *)
(*   pc        position of the single thread of control                    *)
(*   opts      the parsed options                                          *)
(*   VERBOSE   the module global                                           *)
(*   oci_exe, cmd, cmdline   locals of run_docker_test (cmd before and     *)
(*             cmdline after shlex.join)                                   *)
(*   stdout    the lines printed so far                                    *)
(*   proc      the child started by subprocess.run                         *)
(*   outcome   how the Python process ended                                *)
(***************************************************************************)
NoOpts == [distro |-> "", arch |-> "", test_bin_dir |-> "",
           no_system_certs |-> FALSE, verbose |-> FALSE]

Requests == [distro : DistroInputs, arch : ArchInputs, test_bin_dir : DirInputs,
             no_system_certs : BOOLEAN, verbose : BOOLEAN]

NoProc == [state |-> "none", executor_started |-> FALSE, returncode |-> 0]

Pending == [kind |-> "pending", status |-> 0, returncode |-> 0, key |-> ""]

Init ==
    /\ environ \in {{}} \cup {{<<"OCI_EXE", x>>} : x \in Overrides}
    /\ on_path \in SUBSET Installable
    /\ cwd = "/work"
    /\ pc = "start"
    /\ opts = NoOpts
    /\ VERBOSE = FALSE
    /\ oci_exe = ""
    /\ cmd = <<>>
    /\ cmdline = ""
    /\ stdout = <<>>
    /\ proc = NoProc
    /\ outcome = Pending

\* Variant: vprint that ignores the global.
vprint_always(verbose, message) == <<message>>

\* vprint(message): the lines it adds to stdout
vprint(verbose, message) == IF verbose THEN <<message>> ELSE <<>>

\* main(): argparse accepts only keys of the two tables (choices=...), and
\* exits with status 2 otherwise; -v sets the global.
main(o) ==
    /\ pc = "start"
    /\ IF o.distro \in DOMAIN DISTRO_TO_IMAGE_NAME /\ o.arch \in DOMAIN DOCKER_PLATFORM_BY_ARCH
       THEN /\ opts' = o
            /\ VERBOSE' = (IF o.verbose THEN TRUE ELSE VERBOSE)
            /\ pc' = "run_docker_test"
            /\ UNCHANGED outcome
       ELSE /\ outcome' = [kind |-> "SystemExit", status |-> 2, returncode |-> 0, key |-> ""]
            /\ pc' = "done"
            /\ UNCHANGED <<opts, VERBOSE>>
    /\ UNCHANGED <<environ, on_path, cwd, oci_exe, cmd, cmdline, stdout, proc>>

\* run_docker_test(opts) entered by a caller that has not validated opts
\* (the function itself performs no validation).
call_run_docker_test(o) ==
    /\ pc = "start"
    /\ opts' = o
    /\ pc' = "run_docker_test"
    /\ UNCHANGED <<environ, on_path, cwd, VERBOSE, oci_exe, cmd, cmdline, stdout,
                   proc, outcome>>

KeyError(k) == [kind |-> "KeyError", status |-> 1, returncode |-> 0, key |-> k]

\* run_docker_test, from the platform lookup to print(cmd).
run_docker_test ==
    /\ pc = "run_docker_test"
    /\ IF getitem(DOCKER_PLATFORM_BY_ARCH, opts.arch).raises
       THEN /\ outcome' = KeyError(opts.arch)
            /\ pc' = "done"
            /\ UNCHANGED <<oci_exe, cmd, cmdline, stdout>>
       ELSE LET r == oci_executable(environ, on_path) IN
            IF r.exits
            THEN /\ stdout' = stdout \o r.printed
                 /\ outcome' = [kind |-> "SystemExit", status |-> 1,
                                returncode |-> 0, key |-> ""]
                 /\ pc' = "done"
                 /\ UNCHANGED <<oci_exe, cmd, cmdline>>
            ELSE IF getitem(DISTRO_TO_IMAGE_NAME, opts.distro).raises
            THEN /\ oci_exe' = r.value
                 /\ outcome' = KeyError(opts.distro)
                 /\ pc' = "done"
                 /\ UNCHANGED <<cmd, cmdline, stdout>>
            ELSE /\ oci_exe' = r.value
                 /\ cmd' = cmd_tokens(r.value, opts, cwd)
                 /\ cmdline' = shlex_join(cmd')
                 /\ stdout' = Append(stdout, plain(cmdline'))
                 /\ pc' = "shell"
                 /\ UNCHANGED outcome
    /\ UNCHANGED <<environ, on_path, cwd, opts, VERBOSE, proc>>

\* shell(cmd): vprint, then subprocess.run(command, shell=True, ...) starts
\* `sh -c command` and blocks.
shell ==
    /\ pc = "shell"
    /\ stdout' = stdout \o vprint(VERBOSE, running(cmdline))
    /\ proc' = [state |-> "running", executor_started |-> FALSE, returncode |-> 0]
    /\ pc' = "wait"
    /\ UNCHANGED <<environ, on_path, cwd, opts, VERBOSE, oci_exe, cmd, cmdline, outcome>>

\* The statuses `sh -c` can end with: 127 when the command word does not
\* resolve, else whatever the container executor exits with.
sh_statuses(exe, path) == IF which(exe, path) THEN ContainerStatuses ELSE {127}

\* Variant: check=False, the return code is dropped.
run_result_unchecked(returncode) ==
    [kind |-> "success", status |-> 0, returncode |-> 0, key |-> ""]

\* Variant: a command word that does not resolve is reported as its own error,
\* as subprocess.run does without shell=True.
run_result_launch_distinct(returncode) ==
    IF returncode = 127
    THEN [kind |-> "FileNotFoundError", status |-> 1, returncode |-> 0, key |-> ""]
    ELSE IF returncode # 0
    THEN [kind |-> "CalledProcessError", status |-> 1, returncode |-> returncode, key |-> ""]
    ELSE [kind |-> "success", status |-> 0, returncode |-> 0, key |-> ""]

\* check=True: a non-zero return code raises CalledProcessError, which nothing
\* catches, so the interpreter ends with status 1; otherwise main returns.
run_result(returncode) ==
    IF returncode # 0
    THEN [kind |-> "CalledProcessError", status |-> 1, returncode |-> returncode, key |-> ""]
    ELSE [kind |-> "success", status |-> 0, returncode |-> 0, key |-> ""]

\* The child terminates and subprocess.run returns or raises.
subprocess_exit(rc) ==
    /\ pc = "wait"
    /\ rc \in sh_statuses(oci_exe, on_path)
    /\ proc' = [state |-> "exited", executor_started |-> which(oci_exe, on_path),
                returncode |-> rc]
    /\ outcome' = run_result(rc)
    /\ pc' = "done"
    /\ UNCHANGED <<environ, on_path, cwd, opts, VERBOSE, oci_exe, cmd, cmdline, stdout>>

Next ==
    \/ \E o \in Requests : main(o)
    \/ \E o \in Requests : call_run_docker_test(o)
    \/ run_docker_test
    \/ shell
    \/ \E rc \in ContainerStatuses : subprocess_exit(rc)

Spec == Init /\ [][Next]_vars

TypeOK ==
    /\ pc \in {"start", "run_docker_test", "shell", "wait", "done"}
    /\ VERBOSE \in BOOLEAN
    /\ proc.state \in {"none", "running", "exited"}
    /\ outcome.kind \in {"pending", "success", "SystemExit", "KeyError", "CalledProcessError"}

(***************************************************************************)
(* Properties.                                                             *)
(***************************************************************************)
Range(seq) == {seq[i] : i \in DOMAIN seq}

Count(seq, t) == Cardinality({i \in DOMAIN seq : seq[i] = t})

Without(seq, t) == SelectSeq(seq, LAMBDA x : x # t)

OverrideSet == \E kv \in environ : kv[1] = "OCI_EXE"

NoneResolvable ==
    "finch" \notin on_path /\ "podman" \notin on_path /\ "docker" \notin on_path

\* run_docker_test has got past its platform lookup, so oci_executable ran.
ResolverCalled ==
    /\ pc \in {"shell", "wait", "done"}
    /\ opts # NoOpts
    /\ opts.arch \in {"x64", "arm64"}

BadKey ==
    /\ opts # NoOpts
    /\ \/ opts.distro \notin {"ubuntu-22.04", "al2023", "al2"}
       \/ opts.arch \notin {"x64", "arm64"}

Diagnostic == [fmt |-> "{}", arg |-> "cannot find container executor"]

TrustToken == "-v/etc/ssl:/etc/ssl"

\* C1: once the child has exited, the run reports success (status 0, no
\* error) exactly when the child's return code is 0; a non-zero return code
\* always ends the run with a non-zero status and an error that carries it,
\* and success is never reported without a child that exited with 0.
C1_ExitStatusPropagation ==
    /\ proc.state = "exited" =>
          /\ (outcome.kind = "success" /\ outcome.status = 0) <=> (proc.returncode = 0)
          /\ proc.returncode # 0 =>
                /\ outcome.status # 0
                /\ outcome.kind = "CalledProcessError"
                /\ outcome.returncode = proc.returncode
    /\ outcome.kind = "success" => (proc.state = "exited" /\ proc.returncode = 0)

C1_Witness ==
    /\ proc.state = "exited" /\ proc.executor_started
    /\ proc.returncode = 1
    /\ outcome.kind = "CalledProcessError" /\ outcome.status = 1

\* C2: with no OCI_EXE override and none of finch, podman, docker resolvable,
\* no invocation is ever built and no child is ever started, no executor name
\* is substituted, and a run that reached oci_executable ends with status 1
\* right after printing the diagnostic.
C2_NoExecutorIsFatal ==
    (~OverrideSet /\ NoneResolvable) =>
        /\ proc.state = "none"
        /\ cmd = <<>> /\ cmdline = "" /\ oci_exe = ""
        /\ pc \notin {"shell", "wait"}
        /\ ResolverCalled =>
              /\ pc = "done"
              /\ outcome.kind = "SystemExit" /\ outcome.status = 1
              /\ stdout = <<Diagnostic>>

C2_Witness ==
    /\ ~OverrideSet /\ NoneResolvable /\ ResolverCalled
    /\ outcome.kind = "SystemExit" /\ outcome.status = 1
    /\ stdout = <<Diagnostic>>

\* C3: when OCI_EXE is set to X (the empty string and names that are not
\* installed included), oci_executable returns exactly X whatever is on the
\* search path: the run never ends in the resolver's exit, and the executor
\* of a built invocation is X.
C3_OverrideWins ==
    (OverrideSet /\ ResolverCalled) =>
        \A kv \in environ : kv[1] = "OCI_EXE" =>
            /\ oci_exe = kv[2]
            /\ cmd # <<>> => cmd[1] = kv[2]
            /\ ~(outcome.kind = "SystemExit")
            /\ Diagnostic \notin Range(stdout)

C3_Witness ==
    /\ environ = {<<"OCI_EXE", "">>}
    /\ on_path = {"finch", "podman", "docker"}
    /\ cmd # <<>> /\ cmd[1] = ""

\* C4: without an override and with at least one of finch, podman, docker
\* resolvable, the executor is finch if finch resolves, else podman if podman
\* resolves, else docker; it is always a resolvable candidate.
C4_Priority ==
    (~OverrideSet /\ ~NoneResolvable /\ ResolverCalled) =>
        /\ oci_exe \in on_path
        /\ "finch" \in on_path => oci_exe = "finch"
        /\ ("finch" \notin on_path /\ "podman" \in on_path) => oci_exe = "podman"
        /\ ("finch" \notin on_path /\ "podman" \notin on_path) => oci_exe = "docker"

C4_Witness ==
    /\ ~OverrideSet /\ ResolverCalled
    /\ on_path = {"podman", "docker"}
    /\ oci_exe = "podman"

\* C5: a built invocation holds the trust-store mount token exactly when
\* --no-system-certs was not given, then exactly once, and its other tokens
\* are those of the same request with the flag reversed.
C5_TrustStoreBranch ==
    cmd # <<>> =>
        /\ (TrustToken \in Range(cmd)) <=> ~opts.no_system_certs
        /\ Count(cmd, TrustToken) = (IF opts.no_system_certs THEN 0 ELSE 1)
        /\ Without(cmd, TrustToken) =
              Without(cmd_tokens(oci_exe,
                                 [opts EXCEPT !.no_system_certs = ~opts.no_system_certs],
                                 cwd),
                      TrustToken)
        /\ Len(Without(cmd, TrustToken)) = 10

C5_Witness ==
    /\ cmd # <<>> /\ opts.no_system_certs
    /\ TrustToken \notin Range(cmd)
    /\ proc.state = "running"

\* C6 as stated: a distro or arch that is not a key of its table ends the run
\* with a lookup error, and nothing is substituted or launched.
C6_AsStated ==
    (pc = "done" /\ BadKey) =>
        /\ outcome.kind = "KeyError"
        /\ proc.state = "none" /\ cmd = <<>>

\* C6 (amended): a distro or arch that is not a key of its table never gets
\* an invocation built or a child started, and the run ends with a non-zero
\* status: in a KeyError naming the missing key, except that a missing distro
\* with a valid arch, no override and no resolvable candidate ends in the
\* resolver's exit(1), which comes before the image lookup.
C6_MappingFailure ==
    BadKey =>
        /\ proc.state = "none" /\ cmd = <<>> /\ cmdline = ""
        /\ pc \notin {"shell", "wait"}
        /\ pc = "done" =>
              /\ outcome.status # 0
              /\ \/ /\ outcome.kind = "KeyError"
                    /\ outcome.key \in {opts.distro, opts.arch}
                    /\ outcome.key \notin {"ubuntu-22.04", "al2023", "al2", "x64", "arm64"}
                 \/ /\ outcome.kind = "SystemExit" /\ outcome.status = 1
                    /\ opts.arch \in {"x64", "arm64"}
                    /\ ~OverrideSet /\ NoneResolvable
                    /\ stdout = <<Diagnostic>>
              /\ (opts.arch \notin {"x64", "arm64"}) =>
                    (outcome.kind = "KeyError" /\ outcome.key = opts.arch)
              /\ (~NoneResolvable \/ OverrideSet) => outcome.kind = "KeyError"

C6_Witness ==
    /\ pc = "done" /\ opts.distro = "debian" /\ opts.arch = "x64"
    /\ outcome.kind = "KeyError" /\ outcome.key = "debian"
    /\ proc.state = "none" /\ cmd = <<>>

\* C7 as stated: the composed command string is echoed before the child is
\* started when VERBOSE is set, and is not echoed when it is not.
C7_AsStated ==
    proc.state # "none" =>
        /\ VERBOSE => (\E i \in DOMAIN stdout : stdout[i].arg = cmdline)
        /\ ~VERBOSE => ~(\E i \in DOMAIN stdout : stdout[i].arg = cmdline)

\* C7 (amended): the composed command string is printed before the child is
\* started in every run, verbose or not; VERBOSE governs only the additional
\* line "running <command>", which is printed after it and before the child
\* is started exactly when VERBOSE is set.
C7_Echo ==
    /\ pc = "shell" => (stdout = <<plain(cmdline)>> /\ proc.state = "none")
    /\ proc.state # "none" =>
          /\ stdout[1] = [fmt |-> "{}", arg |-> cmdline]
          /\ VERBOSE => stdout = <<[fmt |-> "{}", arg |-> cmdline],
                                   [fmt |-> "running {}", arg |-> cmdline]>>
          /\ ~VERBOSE => stdout = <<[fmt |-> "{}", arg |-> cmdline]>>

C7_Witness ==
    /\ proc.state = "running" /\ ~VERBOSE
    /\ stdout = <<[fmt |-> "{}", arg |-> cmdline]>>
    /\ cmdline # ""

\* C8 as stated: when the executor does not resolve at launch, the run's
\* outcome differs from every outcome of a run whose container process
\* started and exited non-zero.
C8_AsStated ==
    (proc.state = "exited" /\ ~proc.executor_started) =>
        \A rc \in ContainerStatuses \ {0} : outcome # run_result(rc)

\* C8 (amended): when the executor does not resolve at launch, the shell
\* child still runs and returns 127, and the run ends as a failing test does:
\* an uncaught CalledProcessError and interpreter status 1; only the return
\* code 127 carried by the error tells it from a test failure, and a container
\* process that itself exits with 127 produces the same outcome.
C8_LaunchFailure ==
    (proc.state = "exited" /\ ~proc.executor_started) =>
        /\ proc.returncode = 127
        /\ outcome.kind = "CalledProcessError"
        /\ outcome.status = 1
        /\ outcome.returncode = 127
        /\ \A rc \in ContainerStatuses \ {0} :
              /\ run_result(rc).kind = outcome.kind
              /\ run_result(rc).status = outcome.status
              /\ (rc # 127) => run_result(rc) # outcome

C8_Witness ==
    /\ proc.state = "exited" /\ ~proc.executor_started
    /\ oci_exe = "nerdctl"
    /\ outcome.kind = "CalledProcessError"

\* C9: a built invocation is, in order: executor, run, --rm, the mount of the
\* absolute test directory at /test, the trust-store mount unless disabled,
\* -w/test, the non-interactive environment token, --platform, the platform of
\* the arch, the image of the distro, the executable path.
C9_TokenOrder ==
    cmd # <<>> =>
        LET k == IF opts.no_system_certs THEN 0 ELSE 1
            n == Len(cmd)
            dir == SubSeq(cmd[4], 3, Len(cmd[4]) - 6)
        IN  /\ n = 10 + k
            /\ cmd[1] = oci_exe /\ cmd[2] = "run" /\ cmd[3] = "--rm"
            /\ SubSeq(cmd[4], 1, 3) = "-v/"
            /\ SubSeq(cmd[4], Len(cmd[4]) - 5, Len(cmd[4])) = ":/test"
            /\ opts.test_bin_dir = "/tmp/out" => dir = "/tmp/out"
            /\ opts.test_bin_dir = "/tmp/my out" => dir = "/tmp/my out"
            /\ opts.test_bin_dir = "build/../out" => dir = cwd \o "/out"
            /\ k = 1 => cmd[5] = TrustToken
            /\ cmd[5 + k] = "-w/test"
            /\ cmd[6 + k] = "-e DEBIAN_FRONTEND=noninteractive"
            /\ cmd[n - 3] = "--platform"
            /\ cmd[n - 2] = DOCKER_PLATFORM_BY_ARCH[opts.arch]
            /\ cmd[n - 1] = DISTRO_TO_IMAGE_NAME[opts.distro]
            /\ cmd[n] = path_to_exe(opts.arch)
            /\ n - 3 = 7 + k

C9_Witness ==
    /\ cmd # <<>> /\ Len(cmd) = 11
    /\ opts.test_bin_dir = "build/../out"
    /\ cmd[4] = "-v/work/out:/test"
    /\ cmd[11] = "./linuxX64/debugTest/test.kexe"

\* C10: the invocations of two requests that differ only in arch differ in
\* exactly the platform token and the executable path token; the platform is
\* the table's, the path is ./linuxX64/debugTest/test.kexe for x64 and
\* ./linuxArm64/debugTest/test.kexe for arm64, and the image is the distro's.
C10_ArchOnlyPlatformAndPath ==
    cmd # <<>> =>
        LET n == Len(cmd) IN
        /\ cmd[n - 2] = (IF opts.arch = "x64" THEN "linux/amd64" ELSE "linux/arm64")
        /\ cmd[n - 2] = DOCKER_PLATFORM_BY_ARCH[opts.arch]
        /\ cmd[n] = (IF opts.arch = "x64" THEN "./linuxX64/debugTest/test.kexe"
                     ELSE "./linuxArm64/debugTest/test.kexe")
        /\ cmd[n - 1] = DISTRO_TO_IMAGE_NAME[opts.distro]
        /\ \A a2 \in {"x64", "arm64"} :
              LET c2 == cmd_tokens(oci_exe, [opts EXCEPT !.arch = a2], cwd) IN
              /\ Len(c2) = n
              /\ \A i \in 1..n : (i \notin {n - 2, n}) => c2[i] = cmd[i]
              /\ (a2 # opts.arch) => (c2[n - 2] # cmd[n - 2] /\ c2[n] # cmd[n])

C10_Witness ==
    /\ cmd # <<>> /\ opts.arch = "arm64" /\ opts.distro = "al2023"
    /\ cmd[Len(cmd)] = "./linuxArm64/debugTest/test.kexe"
    /\ cmd[Len(cmd) - 2] = "linux/arm64"
    /\ cmd[Len(cmd) - 1] = "public.ecr.aws/amazonlinux/amazonlinux:2023"

====
